---- MODULE Spec2Model ----
(***************************************************************************)
(* Model of platformio/commands/init.py: the `platformio init` command and *)
(* its environment merge, fill_project_envs.                               *)
(*                                                                         *)
(* Strings are sequences of lexical tokens ("env:", "uno", "=", " ", ...). *)
(* Concatenation is \o, str.startswith is a comparison of the first        *)
(* tokens, str.split("=", 1) cuts at the first "=" token and str.strip     *)
(* removes the blank tokens at both ends.  No token other than "=" holds   *)
(* an equals sign and no token other than " " holds white space.           *)
(*                                                                         *)
(* platformio.ini is the sequence of the section blocks written in it,     *)
(* each block a section name and a mapping from option names to values.    *)
(***************************************************************************)
EXTENDS Naturals, Sequences, FiniteSets

VARIABLES
    ini_exists,   \* isfile(join(project_dir, "platformio.ini"))
    file,         \* the section blocks of platformio.ini, in file order
    installed,    \* names of PlatformManager().get_installed()
    calls,        \* number of invocations of the command so far
    args,         \* arguments of the last invocation
    last          \* what the last invocation did (history)

vars == <<ini_exists, file, installed, calls, args, last>>

-----------------------------------------------------------------------------
(* Bounds of the model *)

MaxBatch == 2      \* -b/--board options of one invocation
MaxOpts == 2       \* -O/--project-option options of one invocation
MaxCalls == 2      \* invocations of the command in one behaviour

-----------------------------------------------------------------------------
(* Strings *)

S(t) == <<t>>

NoString == <<"<None>">>

BoundedSeq(X, n) == UNION {[1..k -> X] : k \in 0..n}

startswith(s, prefix) ==
    /\ Len(s) >= Len(prefix)
    /\ SubSeq(s, 1, Len(prefix)) = prefix

\* position of the first "=" token of item, 0 when there is none
RECURSIVE find_eq(_, _)
find_eq(item, i) ==
    IF i > Len(item) THEN 0
    ELSE IF item[i] = "=" THEN i
    ELSE find_eq(item, i + 1)

has_eq(item) == find_eq(item, 1) # 0

RECURSIVE lstrip(_)
lstrip(s) ==
    IF s # <<>> /\ Head(s) = " " THEN lstrip(Tail(s)) ELSE s

RECURSIVE rstrip(_)
rstrip(s) ==
    IF s # <<>> /\ s[Len(s)] = " " THEN rstrip(SubSeq(s, 1, Len(s) - 1)) ELSE s

strip(s) == rstrip(lstrip(s))

\* item.split("=", 1) for an item that holds "="
split_name(item) == SubSeq(item, 1, find_eq(item, 1) - 1)
split_value(item) == SubSeq(item, find_eq(item, 1) + 1, Len(item))

\* d[k] = v on a Python dict
dict_set(d, k, v) ==
    [x \in (DOMAIN d) \cup {k} |-> IF x = k THEN v ELSE d[x]]

Range(s) == {s[i] : i \in 1..Len(s)}

-----------------------------------------------------------------------------
(* Collaborators: the board registry, the config parser, the template *)

BoardRegistry ==
    [b \in {S("uno"), S("esp32"), S("bare")} |->
        IF b = S("uno") THEN
            [platform |-> S("atmelavr"), frameworks |-> <<S("arduino")>>]
        ELSE IF b = S("esp32") THEN
            [platform |-> S("espressif32"),
             frameworks |-> <<S("espidf"), S("arduino")>>]
        ELSE
            [platform |-> S("atmelavr"), frameworks |-> <<>>]]

KnownBoards == DOMAIN BoardRegistry

Platforms == {BoardRegistry[b].platform : b \in KnownBoards}

\* projectconftpl.ini holds comments only
ProjectConfTpl == <<>>

\* The parsed config: the section names in order of first appearance ...
RECURSIVE sections_of(_, _)
sections_of(f, seen) ==
    IF f = <<>> THEN <<>>
    ELSE IF Head(f).name \in seen THEN sections_of(Tail(f), seen)
    ELSE <<Head(f).name>> \o sections_of(Tail(f), seen \cup {Head(f).name})

\* ... and, for a section, its options, a later block of the same name
\* setting its options over those of an earlier one.
RECURSIVE options_of(_, _)
options_of(f, section) ==
    IF f = <<>> THEN <<>>
    ELSE LET rest == options_of(SubSeq(f, 1, Len(f) - 1), section)
             blk == f[Len(f)]
         IN IF blk.name # section THEN rest
            ELSE [k \in (DOMAIN rest) \cup (DOMAIN blk.opts) |->
                     IF k \in DOMAIN blk.opts THEN blk.opts[k] ELSE rest[k]]

load_project_config(f) ==
    [sections |-> sections_of(f, {}),
     options |-> [s \in Range(sections_of(f, {})) |-> options_of(f, s)]]

has_option(config, section, option) ==
    /\ section \in DOMAIN config.options
    /\ option \in DOMAIN config.options[section]

-----------------------------------------------------------------------------
(* validate_boards, get_first_board, init_base_project *)

\* Faulty variant: only the first identifier is resolved
validate_boards_first_only(value) ==
    IF value = <<>> THEN NoString
    ELSE IF Head(value) \notin KnownBoards THEN Head(value)
    ELSE NoString

\* The identifier named by the BadParameter error, NoString when every
\* identifier resolves.
RECURSIVE validate_boards(_)
validate_boards(value) ==
    IF value = <<>> THEN NoString
    ELSE IF Head(value) \notin KnownBoards THEN Head(value)
    ELSE validate_boards(Tail(value))

RECURSIVE first_board_in(_, _)
first_board_in(config, sections) ==
    IF sections = <<>> THEN NoString
    ELSE IF ~startswith(Head(sections), S("env:"))
        THEN first_board_in(config, Tail(sections))
    ELSE IF has_option(config, Head(sections), S("board"))
        THEN config.options[Head(sections)][S("board")]
    ELSE first_board_in(config, Tail(sections))

get_first_board(f) ==
    LET config == load_project_config(f)
    IN first_board_in(config, config.sections)

\* lines 99 and 101: `if board`, false of None and of the empty string
truthy(board) == board # NoString /\ board # <<>>

\* platformio.ini after init_base_project
init_base_project(exists, f) == IF exists THEN f ELSE ProjectConfTpl

-----------------------------------------------------------------------------
(* fill_project_envs *)

\* lines 295-300: the boards of the environments already in the config
RECURSIVE scan_used_boards(_, _)
scan_used_boards(config, sections) ==
    IF sections = <<>> THEN <<>>
    ELSE LET section == Head(sections)
             rest == scan_used_boards(config, Tail(sections))
         IN IF /\ startswith(section, S("env:"))
               /\ has_option(config, section, S("board"))
            THEN <<config.options[section][S("board")]>> \o rest
            ELSE rest

\* Faulty variant: the last framework of the board instead of the first
default_envopts_last_framework(id_) ==
    LET board_config == BoardRegistry[id_]
        envopts == dict_set(dict_set(<<>>, S("platform"), board_config.platform),
                            S("board"), id_)
    IN IF board_config.frameworks # <<>>
       THEN dict_set(envopts, S("framework"),
                     board_config.frameworks[Len(board_config.frameworks)])
       ELSE envopts

\* lines 310-314
default_envopts(id_) ==
    LET board_config == BoardRegistry[id_]
        envopts == dict_set(dict_set(<<>>, S("platform"), board_config.platform),
                            S("board"), id_)
    IN IF board_config.frameworks # <<>>
       THEN dict_set(envopts, S("framework"), board_config.frameworks[1])
       ELSE envopts

\* Faulty variant: name and value are not stripped
RECURSIVE apply_project_option_unstripped(_, _)
apply_project_option_unstripped(envopts, project_option) ==
    IF project_option = <<>> THEN envopts
    ELSE LET item == Head(project_option)
         IN IF ~has_eq(item)
            THEN apply_project_option_unstripped(envopts, Tail(project_option))
            ELSE apply_project_option_unstripped(
                     dict_set(envopts, split_name(item), split_value(item)),
                     Tail(project_option))

\* lines 316-320
RECURSIVE apply_project_option(_, _)
apply_project_option(envopts, project_option) ==
    IF project_option = <<>> THEN envopts
    ELSE LET item == Head(project_option)
         IN IF ~has_eq(item)
            THEN apply_project_option(envopts, Tail(project_option))
            ELSE apply_project_option(
                     dict_set(envopts, strip(split_name(item)),
                              strip(split_value(item))),
                     Tail(project_option))

\* lines 322-325: the block appended for one board
env_block(id_, project_option, env_prefix) ==
    [name |-> S("env:") \o env_prefix \o id_,
     opts |-> apply_project_option(default_envopts(id_), project_option)]

\* Faulty variant: a board that is skipped does not record its platform
RECURSIVE fill_loop_skip_first(_, _, _, _)
fill_loop_skip_first(board_ids, st, project_option, env_prefix) ==
    IF board_ids = <<>> THEN st
    ELSE LET id_ == Head(board_ids)
         IN IF id_ \notin KnownBoards
            THEN [st EXCEPT !.raised = id_]
            ELSE IF id_ \in Range(st.used_boards)
                 THEN fill_loop_skip_first(Tail(board_ids), st,
                                           project_option, env_prefix)
                 ELSE fill_loop_skip_first(
                          Tail(board_ids),
                          [st EXCEPT
                             !.used_platforms =
                                 Append(@, BoardRegistry[id_].platform),
                             !.used_boards = Append(@, id_),
                             !.content = Append(@,
                                 env_block(id_, project_option, env_prefix))],
                          project_option, env_prefix)

\* lines 303-325: the loop over board_ids
RECURSIVE fill_loop(_, _, _, _)
fill_loop(board_ids, st, project_option, env_prefix) ==
    IF board_ids = <<>> THEN st
    ELSE LET id_ == Head(board_ids)
         IN IF id_ \notin KnownBoards
            THEN [st EXCEPT !.raised = id_]
            ELSE LET platforms ==
                         Append(st.used_platforms, BoardRegistry[id_].platform)
                 IN IF id_ \in Range(st.used_boards)
                    THEN fill_loop(Tail(board_ids),
                                   [st EXCEPT !.used_platforms = platforms],
                                   project_option, env_prefix)
                    ELSE fill_loop(Tail(board_ids),
                                   [st EXCEPT
                                      !.used_platforms = platforms,
                                      !.used_boards = Append(@, id_),
                                      !.content = Append(@,
                                          env_block(id_, project_option,
                                                    env_prefix))],
                                   project_option, env_prefix)

\* Faulty variant: every platform of the batch is handed to the installer
install_dependent_platforms_all(platforms, installed_platforms) ==
    IF Range(platforms) \subseteq installed_platforms
    THEN [invoked |-> FALSE, platforms |-> {}]
    ELSE [invoked |-> TRUE, platforms |-> Range(platforms)]

\* lines 338-346: whether cli_platform_install is invoked, and with what
install_dependent_platforms(platforms, installed_platforms) ==
    IF Range(platforms) \subseteq installed_platforms
    THEN [invoked |-> FALSE, platforms |-> {}]
    ELSE [invoked |-> TRUE,
          platforms |-> Range(platforms) \ installed_platforms]

\* cli_platform_install: the platforms are installed, or the command fails
platform_install(installed_platforms, platforms, install_ok) ==
    IF install_ok THEN installed_platforms \cup platforms
    ELSE installed_platforms

\* lines 333-335: open(..., "a") and write
append_to_file(f, content) == f \o content

\* lines 327-335: what follows the loop, st being the loop's result
after_loop(f, inst, st, force_download, install_ok) ==
    LET reconciled == st.raised = NoString /\ force_download
                          /\ st.used_platforms # <<>>
        inst_req == IF reconciled
                    THEN install_dependent_platforms(st.used_platforms, inst)
                    ELSE [invoked |-> FALSE, platforms |-> {}]
        failed == inst_req.invoked /\ ~install_ok
        written == st.raised = NoString /\ ~failed /\ st.content # <<>>
    IN [err |-> IF st.raised # NoString THEN "UnknownBoard"
                ELSE IF failed THEN "InstallFailed" ELSE "",
        bad_id |-> st.raised,
        content |-> st.content,
        used_platforms |-> st.used_platforms,
        reconciled |-> reconciled,
        install_invoked |-> inst_req.invoked,
        install_platforms |-> inst_req.platforms,
        file_at_install |-> f,
        written |-> written,
        file |-> IF written THEN append_to_file(f, st.content) ELSE f,
        installed |-> IF inst_req.invoked
                      THEN platform_install(inst, inst_req.platforms, install_ok)
                      ELSE inst]

\* The whole of fill_project_envs on the file f (the sets of one element
\* bind a value that is computed once).
fill_project_envs(f, inst, board_ids, project_option, env_prefix, force_download, install_ok) ==
    CHOOSE r \in
        { after_loop(f, inst, st, force_download, install_ok) :
            st \in { fill_loop(board_ids,
                               [content |-> <<>>,
                                used_boards |->
                                    scan_used_boards(config, config.sections),
                                used_platforms |-> <<>>,
                                raised |-> NoString],
                               project_option, env_prefix) :
                     config \in {load_project_config(f)} } } : TRUE

-----------------------------------------------------------------------------
(* The command *)

Idle ==
    [err |-> "", bad_id |-> NoString, start_exists |-> FALSE, start_file |-> <<>>,
     start_installed |-> {}, content |-> <<>>, used_platforms |-> <<>>,
     reconciled |-> FALSE, install_invoked |-> FALSE, install_platforms |-> {},
     file_at_install |-> <<>>, written |-> FALSE, ide_board |-> NoString]

NoArgs ==
    [board |-> <<>>, ide |-> "None", project_option |-> <<>>, env_prefix |-> <<>>]

\* lines 61-123 with the option callback of line 55
cli(board, ide, project_option, env_prefix, install_ok) ==
    LET start == [Idle EXCEPT !.start_exists = ini_exists, !.start_file = file,
                              !.start_installed = installed]
        bad == validate_boards(board)
        base == init_base_project(ini_exists, file)
    IN \E r \in {fill_project_envs(base, installed, board, project_option,
                                  env_prefix, ide # "None", install_ok)} :
       /\ calls' = calls + 1
       /\ args' = [board |-> board, ide |-> ide,
                   project_option |-> project_option, env_prefix |-> env_prefix]
       /\ IF bad # NoString THEN
              /\ last' = [start EXCEPT !.err = "BadParameter", !.bad_id = bad]
              /\ UNCHANGED <<ini_exists, file, installed>>
          ELSE IF board = <<>> THEN
              /\ ini_exists' = TRUE
              /\ file' = base
              /\ UNCHANGED installed
              /\ last' = IF ide = "None" THEN start
                         ELSE IF ~truthy(get_first_board(base))
                         THEN [start EXCEPT !.err = "BoardNotDefined"]
                         ELSE [start EXCEPT !.ide_board = get_first_board(base)]
          ELSE
              /\ ini_exists' = TRUE
              /\ file' = r.file
              /\ installed' = r.installed
              /\ last' = [start EXCEPT
                            !.err = r.err,
                            !.bad_id = r.bad_id,
                            !.content = r.content,
                            !.used_platforms = r.used_platforms,
                            !.reconciled = r.reconciled,
                            !.install_invoked = r.install_invoked,
                            !.install_platforms = r.install_platforms,
                            !.file_at_install = r.file_at_install,
                            !.written = r.written,
                            !.ide_board = IF ide # "None" /\ r.err = ""
                                          THEN board[1] ELSE NoString]

-----------------------------------------------------------------------------
(* Inputs *)

BoardIds == KnownBoards \cup {S("bogus")}

Ides == {"None", "clion"}

Prefixes == {<<>>, S("x_")}

ProjectOptions ==
    { <<"framework", "=", "arduino">>,
      <<" ", "framework", " ", "=", " ", "mbed", " ">>,
      <<"board", "=", "uno">>,
      <<"debug">> }

Block(name, opts) == [name |-> name, opts |-> opts]

Opt1(k1, v1) == dict_set(<<>>, S(k1), S(v1))
Opt2(k1, v1, k2, v2) == dict_set(Opt1(k1, v1), S(k2), S(v2))

\* The project directories the command is started in: none, an empty
\* config, and configs with user-written sections, one of them an
\* environment whose board option is empty (`board = `).
InitialFiles ==
    { <<>>,
      << Block(S("platformio"), Opt1("src_dir", "code")),
         Block(<<"env:", "myenv">>, Opt2("platform", "atmelavr", "board", "uno")) >>,
      << Block(<<"env:", "uno">>, Opt1("platform", "atmelavr")),
         Block(S("custom"), Opt1("key", "value")) >>,
      << Block(<<"env:", "blank">>, dict_set(<<>>, S("board"), <<>>)),
         Block(<<"env:", "esp32">>, Opt2("board", "esp32", "build_flags", "-DX")) >> }

InstalledAtStart == {{}, {S("atmelavr")}}

Init ==
    /\ ini_exists \in BOOLEAN
    /\ file \in InitialFiles
    /\ ~ini_exists => file = <<>>
    /\ installed \in InstalledAtStart
    /\ calls = 0
    /\ args = NoArgs
    /\ last = Idle

\* The outcomes of cli_platform_install, for the invocations that reach it.
InstallOutcomes(board, ide) ==
    IF /\ ide # "None"
       /\ \E i \in 1..Len(board) :
             /\ board[i] \in KnownBoards
             /\ BoardRegistry[board[i]].platform \notin installed
    THEN BOOLEAN ELSE {TRUE}

Cli ==
    /\ calls = 0
    /\ \E board \in BoundedSeq(BoardIds, MaxBatch), ide \in Ides,
          project_option \in BoundedSeq(ProjectOptions, MaxOpts),
          env_prefix \in Prefixes :
          \E install_ok \in InstallOutcomes(board, ide) :
              cli(board, ide, project_option, env_prefix, install_ok)

\* the same command line once more
Rerun ==
    /\ calls > 0
    /\ calls < MaxCalls
    /\ \E install_ok \in InstallOutcomes(args.board, args.ide) :
          cli(args.board, args.ide, args.project_option, args.env_prefix,
              install_ok)

Next == Cli \/ Rerun

Spec == Init /\ [][Next]_vars

-----------------------------------------------------------------------------
(* Vocabulary of the properties *)

\* the last invocation got as far as the merge and the merge resolved the
\* whole batch
Merged == calls > 0 /\ args.board # <<>> /\ last.err \in {"", "InstallFailed"}

\* the config the merge of the last invocation started from
BaseFile == init_base_project(last.start_exists, last.start_file)

\* the boards of the environment sections of the config f
UsedBoardSet(f) ==
    LET config == load_project_config(f)
    IN { config.options[s][S("board")] :
           s \in { t \in Range(config.sections) :
                     /\ t[1] = "env:"
                     /\ S("board") \in DOMAIN config.options[t] } }

\* the board a block appended by the merge was made for
BlockId(block) == S(block.name[Len(block.name)])

PlatformsOf(board) ==
    { BoardRegistry[board[i]].platform :
        i \in { j \in 1..Len(board) : board[j] \in KnownBoards } }

FirstPos(board, id) ==
    CHOOSE i \in 1..Len(board) :
        board[i] = id /\ \A j \in 1..(i - 1) : board[j] # id

\* what each override string of ProjectOptions says, written out by hand:
\* <<key, value>>, or <<>> for a string that sets nothing
Meaning(item) ==
    IF item = <<"framework", "=", "arduino">>
        THEN <<S("framework"), S("arduino")>>
    ELSE IF item = <<" ", "framework", " ", "=", " ", "mbed", " ">>
        THEN <<S("framework"), S("mbed")>>
    ELSE IF item = <<"board", "=", "uno">>
        THEN <<S("board"), S("uno")>>
    ELSE <<>>

\* the registry defaults of a board, written out by hand
DefaultsOf(id) ==
    IF id = S("uno") THEN
        [k \in {S("platform"), S("board"), S("framework")} |->
            IF k = S("platform") THEN S("atmelavr")
            ELSE IF k = S("board") THEN S("uno") ELSE S("arduino")]
    ELSE IF id = S("esp32") THEN
        [k \in {S("platform"), S("board"), S("framework")} |->
            IF k = S("platform") THEN S("espressif32")
            ELSE IF k = S("board") THEN S("esp32") ELSE S("espidf")]
    ELSE
        [k \in {S("platform"), S("board")} |->
            IF k = S("platform") THEN S("atmelavr") ELSE S("bare")]

-----------------------------------------------------------------------------
(* C1 *)

\* C1: running the command a second time with the same arguments, on the
\* config a first successful run produced, appends no section and leaves
\* platformio.ini unchanged.
C1_Idempotent ==
    [][ (calls >= 1 /\ last.err = "" /\ calls' = calls + 1 /\ args' = args)
            => (file' = file /\ last'.content = <<>>) ]_vars

-----------------------------------------------------------------------------
(* C2 *)

\* C2: for each board identifier the config has at most one environment
\* section whose board option is that identifier.
C2_NoDuplicateBoards ==
    LET config == load_project_config(file)
        envs == { t \in Range(config.sections) :
                    /\ t[1] = "env:"
                    /\ S("board") \in DOMAIN config.options[t] }
    IN \A s \in envs, t \in envs :
          config.options[s][S("board")] = config.options[t][S("board")] => s = t

-----------------------------------------------------------------------------
(* C3 *)

\* C3: when the requested batch holds an identifier the registry does not
\* know, at any position, the command fails with an error that names an
\* unknown identifier of the batch (the first one), platformio.ini is neither
\* created nor written and no section of the batch is persisted.
C3_AllOrNothing ==
    (calls > 0 /\ \E i \in 1..Len(args.board) : args.board[i] \notin KnownBoards)
    => /\ last.err = "BadParameter"
       /\ \E i \in 1..Len(args.board) :
             /\ args.board[i] \notin KnownBoards
             /\ \A j \in 1..(i - 1) : args.board[j] \in KnownBoards
             /\ last.bad_id = args.board[i]
       /\ ~last.written
       /\ ini_exists = last.start_exists
       /\ file = last.start_file
       /\ installed = last.start_installed

\* a valid identifier followed by an unknown one, in a directory that is
\* not a project yet
C3_Witness ==
    /\ calls > 0
    /\ Len(args.board) = 2
    /\ args.board[1] \in KnownBoards
    /\ args.board[2] \notin KnownBoards
    /\ last.err = "BadParameter"
    /\ ~ini_exists

-----------------------------------------------------------------------------
(* C4 *)

\* C4: after a merge that adds new sections, every section the config had
\* before is still there with the options it had, the sections that were
\* there keep their order, and the new sections come after all of them, one
\* per block the merge wrote, in the order in which their identifiers first
\* occur in the requested batch.
C4_OrderPreserved ==
    (calls > 0 /\ last.written) =>
        LET before == load_project_config(BaseFile)
            after == load_project_config(file)
            n == Len(before.sections)
        IN /\ Len(after.sections) = n + Len(last.content)
           /\ SubSeq(after.sections, 1, n) = before.sections
           /\ \A s \in Range(before.sections) :
                 after.options[s] = before.options[s]
           /\ \A i \in 1..Len(last.content) :
                 /\ after.sections[n + i] = last.content[i].name
                 /\ after.options[last.content[i].name] = last.content[i].opts
           /\ \A i \in 1..Len(last.content), j \in 1..Len(last.content) :
                 i < j => FirstPos(args.board, BlockId(last.content[i]))
                            < FirstPos(args.board, BlockId(last.content[j]))

-----------------------------------------------------------------------------
(* C5 *)

\* the override strings of the last invocation that set the key k
Setting(k) ==
    { i \in 1..Len(args.project_option) :
        /\ Meaning(args.project_option[i]) # <<>>
        /\ Meaning(args.project_option[i])[1] = k }

\* C5: every section one merge produces gets the same overrides: a key set
\* by an override string has the value of the last string that sets it,
\* whether or not the registry gives it a default; every other key has the
\* registry default; a string without "=" sets nothing.
C5_Overrides ==
    \A n \in 1..Len(last.content) :
        LET block == last.content[n]
            defaults == DefaultsOf(BlockId(block))
            keys == { Meaning(args.project_option[i])[1] :
                        i \in { j \in 1..Len(args.project_option) :
                                  Meaning(args.project_option[j]) # <<>> } }
        IN /\ DOMAIN block.opts = (DOMAIN defaults) \cup keys
           /\ \A k \in DOMAIN block.opts :
                 IF Setting(k) # {}
                 THEN \E i \in Setting(k) :
                         /\ \A j \in Setting(k) : j <= i
                         /\ block.opts[k] = Meaning(args.project_option[i])[2]
                 ELSE block.opts[k] = defaults[k]

\* framework=arduino, then the padded framework = mbed and a string without
\* "=", on a board whose default framework is espidf
C5_Witness ==
    /\ calls > 0
    /\ args.project_option =
           << <<"framework", "=", "arduino">>,
              <<" ", "framework", " ", "=", " ", "mbed", " ">> >>
    /\ \E n \in 1..Len(last.content) :
          /\ BlockId(last.content[n]) = S("esp32")
          /\ last.content[n].opts[S("framework")] = S("mbed")

-----------------------------------------------------------------------------
(* C6 *)

\* C6: without overrides the merge produces exactly one section for each
\* requested identifier that is not a used board, named env:<prefix><id>,
\* with platform, board and the first framework of the board, and without a
\* framework option when the board has no framework.
C6_DefaultSections ==
    (Merged /\ args.project_option = <<>>) =>
        LET fresh == Range(args.board) \ UsedBoardSet(BaseFile)
        IN /\ { BlockId(last.content[n]) : n \in 1..Len(last.content) } = fresh
           /\ Len(last.content) = Cardinality(fresh)
           /\ \A n \in 1..Len(last.content) :
                 LET block == last.content[n]
                 IN /\ block.name = <<"env:">> \o args.env_prefix \o BlockId(block)
                    /\ block.opts = DefaultsOf(BlockId(block))

\* no project yet, request uno: one section env:uno with platform = atmelavr,
\* board = uno, framework = arduino
C6_Witness ==
    /\ calls = 1
    /\ ~last.start_exists
    /\ args.board = <<S("uno")>>
    /\ args.project_option = <<>>
    /\ args.env_prefix = <<>>
    /\ Len(file) = 1
    /\ file[1].name = <<"env:", "uno">>
    /\ DOMAIN file[1].opts = {S("platform"), S("board"), S("framework")}
    /\ file[1].opts[S("platform")] = S("atmelavr")
    /\ file[1].opts[S("board")] = S("uno")
    /\ file[1].opts[S("framework")] = S("arduino")

-----------------------------------------------------------------------------
(* C7 *)

\* C7: a requested identifier that is the board of an environment section of
\* the config gets no new section and causes no write, and the platforms the
\* merge collects, and hands to the platform reconciliation, are those of
\* all the requested identifiers.
C7_SkippedStillCount ==
    Merged =>
        LET used == UsedBoardSet(BaseFile)
        IN /\ \A n \in 1..Len(last.content) : BlockId(last.content[n]) \notin used
           /\ Range(args.board) \subseteq used =>
                 /\ last.content = <<>>
                 /\ ~last.written
                 /\ file = BaseFile
           /\ Range(last.used_platforms) = PlatformsOf(args.board)
           /\ last.reconciled <=> args.ide # "None"

\* env:myenv has board = uno; uno is requested again with an IDE
C7_Witness ==
    /\ Merged
    /\ Len(last.start_file) = 2
    /\ last.start_file[2].name = <<"env:", "myenv">>
    /\ args.board = <<S("uno")>>
    /\ last.content = <<>>
    /\ file = last.start_file
    /\ last.reconciled
    /\ last.used_platforms = <<S("atmelavr")>>

-----------------------------------------------------------------------------
(* C8 *)

\* C8: when an invocation that produces new sections invokes the platform
\* installer, the new sections are in platformio.ini at that moment.
C8_PersistedBeforeInstall ==
    (calls > 0 /\ last.install_invoked /\ last.content # <<>>)
    => last.file_at_install = BaseFile \o last.content

-----------------------------------------------------------------------------
(* C9 *)

\* C9: the section names of platformio.ini are pairwise distinct.
C9_UniqueNames ==
    \A i \in 1..Len(file), j \in 1..Len(file) :
        file[i].name = file[j].name => i = j

-----------------------------------------------------------------------------
(* C10 *)

\* C10: the platform installer is invoked only when an IDE was given and a
\* platform of the requested batch is not installed, and then with exactly
\* the platforms of the batch that are not installed.
C10_Reconcile ==
    calls > 0 =>
        LET missing == PlatformsOf(args.board) \ last.start_installed
        IN /\ last.install_invoked =>
                 /\ args.ide # "None"
                 /\ missing # {}
                 /\ last.install_platforms = missing
           /\ (args.ide = "None" \/ missing = {}) =>
                 /\ ~last.install_invoked
                 /\ installed = last.start_installed

\* atmelavr is installed, the batch needs atmelavr and espressif32
C10_Witness ==
    /\ calls > 0
    /\ last.install_invoked
    /\ last.start_installed = {S("atmelavr")}
    /\ PlatformsOf(args.board) = {S("atmelavr"), S("espressif32")}
    /\ last.install_platforms = {S("espressif32")}

====
